---- MODULE Spec2Model ----
(***************************************************************************)
(* The DataFrame comparison helpers of Financial/df_compare.py:            *)
(* compare_dataframes, compare_dfs and cmp_dfs, with the pandas operations *)
(* they call (testing.assert_frame_equal, Index.equals, Series.equals,     *)
(* Series.__ne__, DataFrame.compare, DataFrame.copy,                       *)
(* PeriodIndex.to_timestamp) modelled by what they do on a DataFrame.      *)
(*                                                                         *)
(* A DataFrame is a record                                                 *)
(*   kind    : "period" (PeriodIndex, daily) or "datetime" (DatetimeIndex) *)
(*   keys    : the index values in order; a period key is a day number,    *)
(*             a datetime key is an instant in hours                       *)
(*   freq    : the index's freq attribute in days, 0 for freq=None         *)
(*   columns : the column labels in order                                  *)
(*   dtypes  : column label -> "int64" | "float64"                         *)
(*   cells   : <<row position, column label>> -> value in units of 1e-6,   *)
(*             NaN for a missing value                                     *)
(* and None is the absent argument.                                        *)
(*                                                                         *)
(* load_raw_data and download_data of Financial/github_data_helper.py are  *)
(* modelled over a file system: the set of files and the set of            *)
(* directories that exist, a path being the sequence of its components.    *)
(***************************************************************************)
EXTENDS Integers, Sequences, FiniteSets

\* ------------------------------------------------------------------ bounds
MaxRows == 2
CellRows == 2
\* The ceiling max_reported_diffs of the specification's ComparisonConfig;
\* the code has no such parameter.
max_reported_diffs == 1
MaxFiles == 2
MaxCalls == 2

\* ------------------------------------------------------------- data model
None == [kind |-> "None"]
Unset == [kind |-> "Unset"]
NaN == -1
Scale == 1000000
HoursPerDay == 24
MinInferLen == 3
RtolInverse == 100000

ColNames == <<"a", "b">>
DTypes == {"int64", "float64"}
IntVals == {10 * Scale, 20 * Scale}
FloatVals == {10 * Scale, 10 * Scale + 1, 20 * Scale, NaN}
BaseVal == 10 * Scale

Abs(x) == IF x < 0 THEN -x ELSE x
Range(s) == {s[i] : i \in 1..Len(s)}
IsInjective(s) == \A i, j \in 1..Len(s) : s[i] = s[j] => i = j
\* the non-empty sequences without repetition over S, of length at most n
InjSeqs(S, n) == {s \in UNION {[1..k -> S] : k \in 1..n} : IsInjective(s)}
IsNone(df) == df.kind = "None"

\* ------------------------------------------------- PeriodIndex.to_timestamp
\* the step between consecutive keys when it is the same everywhere, else 0
RegularStep(keys) ==
  IF Len(keys) >= 2 /\ \A i \in 1..(Len(keys) - 1) :
        keys[i + 1] - keys[i] = keys[2] - keys[1]
  THEN keys[2] - keys[1] ELSE 0
\* DatetimeArray._with_freq("infer"): no freq under three elements or for
\* irregular values
InferFreq(keys) ==
  IF Len(keys) >= MinInferLen /\ RegularStep(keys) % HoursPerDay = 0
  THEN RegularStep(keys) \div HoursPerDay ELSE 0
\* a daily period becomes the instant its day starts at
StartInstant(day) == day * HoursPerDay
IndexToTimestamp(df) ==
  LET ks == [i \in 1..Len(df.keys) |-> StartInstant(df.keys[i])]
  IN [df EXCEPT !.kind = "datetime", !.keys = ks, !.freq = InferFreq(ks)]
\* a cast applied to every index, without the isinstance check
NormalizeAnyIndex(df, flag) == IF flag THEN IndexToTimestamp(df) ELSE df
\* lines 93-100 / 142-149: cast a PeriodIndex to a DatetimeIndex
Normalize(df, flag) ==
  IF flag /\ df.kind = "period" THEN IndexToTimestamp(df) ELSE df

\* ------------------------------------------------------ pandas predicates
Shape(df) == <<Len(df.keys), Len(df.columns)>>
\* Index.equals: same class/dtype and same values in the same order
IndexEquals(l, r) == l.kind = r.kind /\ l.keys = r.keys
ColumnsEquals(l, r) == l.columns = r.columns
\* Series.equals on the two dtypes Series: same labels and same values
DtypesEquals(l, r) ==
  /\ l.columns = r.columns
  /\ \A c \in Range(l.columns) : l.dtypes[c] = r.dtypes[c]
Max(x, y) == IF x >= y THEN x ELSE y
\* IEEE comparison, under which a missing value equals nothing
AlmostEqualNoNaN(a, b) ==
  /\ a # NaN
  /\ b # NaN
  /\ Abs(a - b) <= Max(Abs(a), Abs(b)) \div RtolInverse
\* assert_almost_equal on two floats: NaN matches NaN, otherwise
\* math.isclose, |a - b| <= max(rtol * max(|a|, |b|), atol) with rtol = 1e-5
\* and atol = 1e-8; atol is under one unit of the cell values, so it admits
\* only a difference of 0, which the rtol term admits as well
AlmostEqual(a, b) ==
  \/ a = NaN /\ b = NaN
  \/ /\ a # NaN
     /\ b # NaN
     /\ Abs(a - b) <= Max(Abs(a), Abs(b)) \div RtolInverse
\* a comparison that takes a missing left value for no difference
CellDiffersLeftOnly(a, b) == a # NaN /\ a # b
\* DataFrame.compare: a cell differs unless equal or both missing
CellDiffers(a, b) == ~((a = b /\ a # NaN /\ b # NaN) \/ (a = NaN /\ b = NaN))
ColumnAssertEqual(l, r, c) ==
  /\ l.kind = "datetime" => l.freq = r.freq
  /\ l.dtypes[c] = r.dtypes[c]
  /\ \A i \in 1..Len(l.keys) :
       IF l.dtypes[c] = "float64"
       THEN AlmostEqual(l.cells[<<i, c>>], r.cells[<<i, c>>])
       ELSE l.cells[<<i, c>>] = r.cells[<<i, c>>]
\* tm.assert_frame_equal(df1, df2) with its defaults: TRUE when it returns,
\* FALSE when it raises AssertionError
AssertFrameEqual(l, r) ==
  /\ ~IsNone(l)
  /\ ~IsNone(r)
  /\ Shape(l) = Shape(r)
  /\ IndexEquals(l, r)
  /\ ColumnsEquals(l, r)
  /\ \A c \in Range(l.columns) : ColumnAssertEqual(l, r, c)

\* ----------------------------------------------------------------- inputs
ColumnSeqs == InjSeqs(Range(ColNames), Len(ColNames))
Days == 1..MaxRows
MkFrame(kind, keys, freq, columns, dtypes, cells) ==
  [kind |-> kind, keys |-> keys, freq |-> freq, columns |-> columns,
   dtypes |-> dtypes, cells |-> cells]
\* the freq a DatetimeIndex over these instants can carry: none, or daily
\* when the instants are consecutive days
DatetimeFreqs(keys) ==
  {0} \cup {f \in {1} : Len(keys) = 1 \/ RegularStep(keys) = f * HoursPerDay}
Indexes ==
  {[kind |-> "period", keys |-> ks, freq |-> 1] : ks \in InjSeqs(Days, MaxRows)}
  \cup UNION {{[kind |-> "datetime", keys |-> ks, freq |-> f] :
                 f \in DatetimeFreqs(ks)} :
              ks \in InjSeqs({StartInstant(d) : d \in Days}, MaxRows)}
\* the dtypes the generated frames give a column: the first column name
\* takes either dtype, the others are float64
DTypesOf(c) == IF c = ColNames[1] THEN DTypes ELSE {"float64"}
\* frames of every index and column layout, every cell holding BaseVal
StructFrames ==
  UNION {UNION {{MkFrame(ix.kind, ix.keys, ix.freq, cs, dt,
                   [p \in (1..Len(ix.keys)) \X Range(cs) |-> BaseVal]) :
                   dt \in {d \in [Range(cs) -> DTypes] :
                            \A c \in Range(cs) : d[c] \in DTypesOf(c)}} :
                cs \in ColumnSeqs} :
         ix \in Indexes}
ValsOf(dtype) == IF dtype = "float64" THEN FloatVals ELSE IntVals
CellKeys == [i \in 1..CellRows |-> i]
CellColumns == <<ColNames[1]>>
\* frames of one fixed layout (CellRows daily periods, one column), with
\* every choice of dtype and cell values
CellFrames ==
  UNION {{MkFrame("period", CellKeys, 1, CellColumns, dt, cl) :
            cl \in {f \in [(1..CellRows) \X Range(CellColumns) -> IntVals \cup FloatVals] :
                      \A p \in DOMAIN f : f[p] \in ValsOf(dt[p[2]])}} :
         dt \in [Range(CellColumns) -> DTypes]}
Frames == StructFrames \cup CellFrames
Entries == {"compare_dataframes", "compare_dfs", "cmp_dfs"}

\* ------------------------------------------------------------------ state
VARIABLES
  entry,         \* the function the caller invoked
  to_timestamp,  \* the to_timestamp argument (compare_dataframes has none)
  df1, df2,      \* the caller's DataFrame objects (None when absent)
  given1, given2,\* what those objects held when the call was made
  df1_copy, df2_copy, \* compare_dfs's copies (lines 90-91)
  pc,            \* the statement the call has reached
  out,           \* what has been printed, in order
  exc,           \* the exception that left the call, "none" otherwise
  stages         \* the analysis steps of compare_dataframes that completed

cmpVars == <<entry, to_timestamp, df1, df2, given1, given2, df1_copy, df2_copy,
             pc, out, exc, stages>>

\* load_raw_data (github_data_helper.py)
VARIABLES
  file_path,     \* the file_path argument: None, a non-dict, or a dict
  out_dir,       \* the out_dir argument
  files, dirs,   \* the files and the directories that exist
  files0, dirs0, \* those that existed before the first call
  call,          \* the number of the call in progress
  lpc,           \* the statement that call has reached
  idx,           \* the position of the loop in file_path.items()
  updated_file_path, \* the dict being built (line 76)
  results,       \* how each finished call ended
  checks         \* one record for each entry a call has examined

loadVars == <<file_path, out_dir, files, dirs, files0, dirs0, call, lpc, idx,
              updated_file_path, results, checks>>

vars == <<cmpVars, loadVars>>

\* no call of load_raw_data is made
LoadIdle ==
  /\ file_path = None
  /\ out_dir = ""
  /\ files = {}
  /\ dirs = {}
  /\ files0 = {}
  /\ dirs0 = {}
  /\ call = 0
  /\ lpc = "off"
  /\ idx = 0
  /\ updated_file_path = <<>>
  /\ results = <<>>
  /\ checks = <<>>

Terminal == {"done", "raised"}
FindingKinds == {"Shape", "Index", "Columns", "Type", "Value", "Overflow"}
IsFinding(item) == item.kind \in FindingKinds
Findings == SelectSeq(out, IsFinding)
IsHeadline(item) == item.kind = "Headline"
Headline ==
  LET h == SelectSeq(out, IsHeadline)
  IN IF h = <<>> THEN "none"
     ELSE IF h[1].identical THEN "identical" ELSE "different"
\* the two frames compare_dataframes was called with
Left == IF entry = "compare_dfs" THEN df1_copy ELSE df1
Right == IF entry = "compare_dfs" THEN df2_copy ELSE df2

Init ==
  /\ entry \in Entries
  /\ to_timestamp \in IF entry = "compare_dataframes" THEN {FALSE} ELSE BOOLEAN
  /\ df1 \in Frames \cup {None}
  /\ df2 \in Frames \cup {None}
  /\ given1 = df1
  /\ given2 = df2
  /\ df1_copy = Unset
  /\ df2_copy = Unset
  /\ pc = IF entry = "compare_dataframes" THEN "assert" ELSE "check"
  /\ out = <<>>
  /\ exc = "none"
  /\ stages = <<>>
  /\ LoadIdle

\* ------------------------------------------------------------ compare_dfs
\* lines 81-87: the None checks, then the to_timestamp line
CompareDfsCheck ==
  /\ pc = "check"
  /\ entry = "compare_dfs"
  /\ IF IsNone(df1) \/ IsNone(df2)
     THEN /\ exc' = "ValueError"
          /\ pc' = "raised"
          /\ out' = out
     ELSE /\ out' = Append(out, [kind |-> "ToTimestamp", value |-> to_timestamp])
          /\ pc' = "copy"
          /\ exc' = exc
  /\ UNCHANGED <<entry, to_timestamp, df1, df2, given1, given2, df1_copy,
                 df2_copy, stages>>
  /\ UNCHANGED loadVars

\* lines 90-100: copy both frames and cast the copies' PeriodIndex
CompareDfsNormalize ==
  /\ pc = "copy"
  /\ df1_copy' = Normalize(df1, to_timestamp)
  /\ df2_copy' = Normalize(df2, to_timestamp)
  /\ pc' = "assert"
  /\ UNCHANGED <<entry, to_timestamp, df1, df2, given1, given2, out, exc, stages>>
  /\ UNCHANGED loadVars

\* ---------------------------------------------------------------- cmp_dfs
\* lines 134-140
CmpDfsCheck ==
  /\ pc = "check"
  /\ entry = "cmp_dfs"
  /\ IF IsNone(df1) \/ IsNone(df2)
     THEN /\ exc' = "ValueError"
          /\ pc' = "raised"
          /\ out' = out
     ELSE /\ out' = Append(out, [kind |-> "ToTimestamp", value |-> to_timestamp])
          /\ pc' = "normalize"
          /\ exc' = exc
  /\ UNCHANGED <<entry, to_timestamp, df1, df2, given1, given2, df1_copy,
                 df2_copy, stages>>
  /\ UNCHANGED loadVars

\* lines 142-149: the cast is assigned to the arguments' own index
CmpDfsNormalize ==
  /\ pc = "normalize"
  /\ df1' = Normalize(df1, to_timestamp)
  /\ df2' = Normalize(df2, to_timestamp)
  /\ pc' = "cmp_assert"
  /\ UNCHANGED <<entry, to_timestamp, given1, given2, df1_copy, df2_copy, out,
                 exc, stages>>
  /\ UNCHANGED loadVars

\* lines 152-157
CmpDfsAssert ==
  /\ pc = "cmp_assert"
  /\ out' = Append(out, [kind |-> "Headline", identical |-> AssertFrameEqual(df1, df2)])
  /\ pc' = "done"
  /\ UNCHANGED <<entry, to_timestamp, df1, df2, given1, given2, df1_copy,
                 df2_copy, exc, stages>>
  /\ UNCHANGED loadVars

\* ----------------------------------------------------- compare_dataframes
\* lines 17-24: the headline
AssertStage ==
  /\ pc = "assert"
  /\ out' = Append(out, [kind |-> "Headline", identical |-> AssertFrameEqual(Left, Right)])
  /\ pc' = IF AssertFrameEqual(Left, Right) THEN "done" ELSE "shape"
  /\ UNCHANGED <<entry, to_timestamp, df1, df2, given1, given2, df1_copy,
                 df2_copy, exc, stages>>
  /\ UNCHANGED loadVars

\* lines 28-29; None has no attribute shape
ShapeStage ==
  /\ pc = "shape"
  /\ IF IsNone(Left) \/ IsNone(Right)
     THEN /\ exc' = "AttributeError"
          /\ pc' = "raised"
          /\ UNCHANGED <<out, stages>>
     ELSE /\ out' = IF Shape(Left) # Shape(Right)
                    THEN Append(out, [kind |-> "Shape", a |-> Shape(Left), b |-> Shape(Right)])
                    ELSE out
          /\ pc' = "index"
          /\ stages' = Append(stages, "shape")
          /\ exc' = exc
  /\ UNCHANGED <<entry, to_timestamp, df1, df2, given1, given2, df1_copy, df2_copy>>
  /\ UNCHANGED loadVars

\* lines 32-35
IndexStage ==
  /\ pc = "index"
  /\ out' = IF ~IndexEquals(Left, Right)
            THEN Append(out, [kind |-> "Index",
                              a |-> [kind |-> Left.kind, keys |-> Left.keys],
                              b |-> [kind |-> Right.kind, keys |-> Right.keys]])
            ELSE out
  /\ pc' = "columns"
  /\ stages' = Append(stages, "index")
  /\ UNCHANGED <<entry, to_timestamp, df1, df2, given1, given2, df1_copy,
                 df2_copy, exc>>
  /\ UNCHANGED loadVars

\* lines 38-41
ColumnsStage ==
  /\ pc = "columns"
  /\ out' = IF ~ColumnsEquals(Left, Right)
            THEN Append(out, [kind |-> "Columns", a |-> Left.columns, b |-> Right.columns])
            ELSE out
  /\ pc' = "dtypes"
  /\ stages' = Append(stages, "columns")
  /\ UNCHANGED <<entry, to_timestamp, df1, df2, given1, given2, df1_copy,
                 df2_copy, exc>>
  /\ UNCHANGED loadVars

\* line 48: the columns whose dtypes differ, in column order
TypeFindings(l, r) ==
  LET Differs(c) == l.dtypes[c] # r.dtypes[c]
      cs == SelectSeq(l.columns, Differs)
  IN [k \in 1..Len(cs) |->
        [kind |-> "Type", column |-> cs[k], a |-> l.dtypes[cs[k]], b |-> r.dtypes[cs[k]]]]

\* lines 44-49; df1_dtypes != df2_dtypes raises ValueError ("Can only compare
\* identically-labeled Series objects") when the column labels differ, and
\* nothing around it catches a ValueError
DtypesStage ==
  /\ pc = "dtypes"
  /\ IF DtypesEquals(Left, Right)
     THEN /\ pc' = "cells"
          /\ stages' = Append(stages, "dtypes")
          /\ UNCHANGED <<out, exc>>
     ELSE IF ~ColumnsEquals(Left, Right)
     THEN /\ exc' = "ValueError"
          /\ pc' = "raised"
          /\ UNCHANGED <<out, stages>>
     ELSE /\ out' = out \o TypeFindings(Left, Right)
          /\ pc' = "cells"
          /\ stages' = Append(stages, "dtypes")
          /\ exc' = exc
  /\ UNCHANGED <<entry, to_timestamp, df1, df2, given1, given2, df1_copy, df2_copy>>
  /\ UNCHANGED loadVars

\* DataFrame.compare on identically-labelled frames: the differing cells,
\* rows in index order and columns in column order within a row
ValueFindings(l, r) ==
  LET n == Len(l.keys)
      m == Len(l.columns)
      pos == [k \in 1..(n * m) |-> <<((k - 1) \div m) + 1, l.columns[((k - 1) % m) + 1]>>]
      Differs(p) == CellDiffers(l.cells[p], r.cells[p])
      ds == SelectSeq(pos, Differs)
  IN [k \in 1..Len(ds) |->
        [kind |-> "Value", row |-> l.keys[ds[k][1]], column |-> ds[k][2],
         a |-> l.cells[ds[k]], b |-> r.cells[ds[k]]]]

\* lines 53-59; DataFrame.compare raises ValueError exactly when the two
\* frames are not identically labelled (index and columns)
CellsStage ==
  /\ pc = "cells"
  /\ out' = IF IndexEquals(Left, Right) /\ ColumnsEquals(Left, Right)
            THEN Append(out, [kind |-> "Detail"]) \o ValueFindings(Left, Right)
            ELSE Append(out, [kind |-> "Overflow"])
  /\ pc' = "done"
  /\ stages' = Append(stages, "cells")
  /\ UNCHANGED <<entry, to_timestamp, df1, df2, given1, given2, df1_copy,
                 df2_copy, exc>>
  /\ UNCHANGED loadVars

Next ==
  \/ CompareDfsCheck
  \/ CompareDfsNormalize
  \/ CmpDfsCheck
  \/ CmpDfsNormalize
  \/ CmpDfsAssert
  \/ AssertStage
  \/ ShapeStage
  \/ IndexStage
  \/ ColumnsStage
  \/ DtypesStage
  \/ CellsStage

Spec == Init /\ [][Next]_vars

\* ----------------------------------------------------------------- claims
Compares == {"compare_dataframes", "compare_dfs"}
BothGiven == ~IsNone(given1) /\ ~IsNone(given2)
CountKind(k) ==
  LET Is(item) == item.kind = k
  IN Len(SelectSeq(out, Is))
SameLabels(l, r) ==
  l.kind = r.kind /\ l.keys = r.keys /\ l.freq = r.freq /\ l.columns = r.columns
SameDtypes(l, r) == \A c \in Range(l.columns) : l.dtypes[c] = r.dtypes[c]
\* the number of cells in which two identically-labelled frames differ
NumDiff(l, r) ==
  Cardinality({p \in DOMAIN l.cells : CellDiffers(l.cells[p], r.cells[p])})

\* C1: for any two non-null datasets, compare_dfs returns without raising;
\* it reports an index finding when the indexes differ and a columns finding
\* when the columns differ, and no cell finding when the labels are disjoint.
C1_NoRaiseOnStructuralDrift ==
  (entry = "compare_dfs" /\ BothGiven /\ pc \in Terminal) =>
    /\ exc = "none"
    /\ Headline = "different" =>
         /\ ~IndexEquals(Left, Right) => CountKind("Index") = 1
         /\ ~ColumnsEquals(Left, Right) => CountKind("Columns") = 1
         /\ Range(Left.columns) \cap Range(Right.columns) = {} => CountKind("Value") = 0

\* C2: two frames with the same index, columns and dtypes that are found different
\* and differ in exactly max_reported_diffs cells give that many Value
\* findings and no Overflow finding; differing in one cell more they give
\* exactly one Overflow finding and no Value finding.
C2_OverflowBoundary ==
  (/\ entry \in Compares
   /\ BothGiven
   /\ SameLabels(given1, given2)
   /\ SameDtypes(given1, given2)
   /\ Headline = "different"
   /\ pc \in Terminal) =>
    /\ NumDiff(given1, given2) = max_reported_diffs =>
         CountKind("Value") = max_reported_diffs /\ CountKind("Overflow") = 0
    /\ NumDiff(given1, given2) = max_reported_diffs + 1 =>
         CountKind("Overflow") = 1 /\ CountKind("Value") = 0

\* C3: no entry point changes a caller-supplied dataset: at every point of
\* every call both arguments hold what they held when the call was made.
C3_ArgumentsUntouched == df1 = given1 /\ df2 = given2

\* C4: when either dataset is None the call prints nothing, runs no stage,
\* and ends with ValueError and no other exception.
C4_NoneIsInvalidInput ==
  (IsNone(given1) \/ IsNone(given2)) =>
    /\ out = <<>>
    /\ stages = <<>>
    /\ pc \in Terminal => exc = "ValueError"

\* would any of the analysis steps report on these two frames
StagesWouldFind(l, r) ==
  \/ Shape(l) # Shape(r)
  \/ ~IndexEquals(l, r)
  \/ ~ColumnsEquals(l, r)
  \/ ~DtypesEquals(l, r)
  \/ ValueFindings(l, r) # <<>>

\* C5: a completed comparison is headed 'identical' exactly when it reports
\* no finding, and it is not headed 'identical' when one of the analysis
\* steps would find a difference.
C5_VerdictAgreesWithFindings ==
  (entry \in Compares /\ BothGiven /\ pc = "done") =>
    /\ Headline = "identical" <=> Findings = <<>>
    /\ Headline = "identical" => ~StagesWouldFind(Left, Right)

\* C6: a dataset compared with itself, by any entry point and with either
\* value of to_timestamp, ends normally, headed 'identical', with no finding.
C6_Identity ==
  (given1 = given2 /\ ~IsNone(given1) /\ pc \in Terminal) =>
    /\ pc = "done"
    /\ exc = "none"
    /\ Headline = "identical"
    /\ Findings = <<>>

\* a period-indexed dataset with a missing cell has been compared with itself
\* by compare_dfs with to_timestamp set
C6_Witness ==
  /\ pc = "done"
  /\ entry = "compare_dfs"
  /\ to_timestamp
  /\ given1 = given2
  /\ given1.kind = "period"
  /\ \E p \in DOMAIN given1.cells : given1.cells[p] = NaN
  /\ df1_copy.kind = "datetime"
  /\ Headline = "identical"

\* the second dataset is indexed by the start instants of the first one's
\* periods and has the same columns, dtypes and cells
SamePeriodsAsInstants(a, b) ==
  /\ a.kind = "period"
  /\ b.kind = "datetime"
  /\ Len(a.keys) = Len(b.keys)
  /\ \A i \in 1..Len(a.keys) : b.keys[i] = StartInstant(a.keys[i])
  /\ a.columns = b.columns
  /\ a.dtypes = b.dtypes
  /\ a.cells = b.cells

\* C7: with to_timestamp set, a period-indexed dataset and a dataset indexed
\* by the start instants of the same periods, with the same columns and
\* values, compare 'identical' with no finding.
C7_PeriodNormalization ==
  (/\ entry \in {"compare_dfs", "cmp_dfs"}
   /\ to_timestamp
   /\ BothGiven
   /\ SamePeriodsAsInstants(given1, given2)
   /\ pc \in Terminal) =>
    Headline = "identical" /\ Findings = <<>> /\ exc = "none"

\* C8: two frames with the same index, columns and dtypes whose cells differ
\* in n positions, 1 <= n <= max_reported_diffs, are headed 'different' and
\* report exactly the n Value findings, in (row, column) order, and no other
\* finding.
C8_ValueMismatches ==
  (/\ entry \in Compares
   /\ BothGiven
   /\ SameLabels(given1, given2)
   /\ SameDtypes(given1, given2)
   /\ NumDiff(given1, given2) \in 1..max_reported_diffs
   /\ pc \in Terminal) =>
    /\ Headline = "different"
    /\ Findings = ValueFindings(Left, Right)
    /\ Len(Findings) = NumDiff(given1, given2)

StageOrder == <<"shape", "index", "columns", "dtypes", "cells">>
\* C9: once the frames are found different every analysis step runs, in the
\* order shape, index, columns, dtypes, cells, whatever the earlier steps
\* found.
C9_StagesIndependent ==
  (entry \in Compares /\ BothGiven /\ pc \in Terminal /\ Headline = "different") =>
    stages = StageOrder

\* C10: after the dtypes step, each column present in both frames has a Type
\* finding exactly when its two dtypes differ, a column present in one frame
\* only has none, and the step has not failed.
C10_SchemaOnCommonColumns ==
  (/\ entry \in Compares
   /\ BothGiven
   /\ Headline = "different"
   /\ pc \in {"cells"} \cup Terminal) =>
    /\ exc = "none"
    /\ \A c \in Range(Left.columns) \cap Range(Right.columns) :
         (\E i \in 1..Len(out) : out[i].kind = "Type" /\ out[i].column = c)
           <=> Left.dtypes[c] # Right.dtypes[c]
    /\ \A i \in 1..Len(out) :
         out[i].kind = "Type" =>
           out[i].column \in Range(Left.columns) \cap Range(Right.columns)

\* what a call of entry point e on the frames a and b ends with: the
\* headline, the exception that leaves it, and the kinds of findings printed
RunOutcome(e, flag, a, b) ==
  LET l == IF e = "compare_dataframes" THEN a ELSE Normalize(a, flag)
      r == IF e = "compare_dataframes" THEN b ELSE Normalize(b, flag)
      structural ==
        {k \in {"Shape"} : Shape(l) # Shape(r)}
        \cup {k \in {"Index"} : ~IndexEquals(l, r)}
        \cup {k \in {"Columns"} : ~ColumnsEquals(l, r)}
  IN IF e # "compare_dataframes" /\ (IsNone(a) \/ IsNone(b))
     THEN [headline |-> "none", exc |-> "ValueError", kinds |-> {}]
     ELSE IF AssertFrameEqual(l, r)
     THEN [headline |-> "identical", exc |-> "none", kinds |-> {}]
     ELSE IF e = "cmp_dfs"
     THEN [headline |-> "different", exc |-> "none", kinds |-> {}]
     ELSE IF IsNone(l) \/ IsNone(r)
     THEN [headline |-> "different", exc |-> "AttributeError", kinds |-> {}]
     ELSE IF ~ColumnsEquals(l, r)
     THEN [headline |-> "different", exc |-> "ValueError", kinds |-> structural]
     ELSE [headline |-> "different", exc |-> "none",
           kinds |-> structural
             \cup {k \in {"Type"} : TypeFindings(l, r) # <<>>}
             \cup (IF IndexEquals(l, r)
                   THEN {k \in {"Value"} : ValueFindings(l, r) # <<>>}
                   ELSE {"Overflow"})]
\* what the call in progress has ended with
Observed ==
  [headline |-> Headline, exc |-> exc,
   kinds |-> {Findings[i].kind : i \in 1..Len(Findings)}]

\* C11: a call that has ended has the headline, the exception (or none) and
\* the kinds of findings that the same entry point gives, with the same
\* to_timestamp, when the two datasets are passed in the other order.
C11_Symmetry ==
  pc \in Terminal =>
    /\ Observed = RunOutcome(entry, to_timestamp, given1, given2)
    /\ Observed = RunOutcome(entry, to_timestamp, given2, given1)

\* compare_dfs has ended on two frames of which only the first has a missing
\* value in some cell, and has reported a Value finding
C11_Witness ==
  /\ pc = "done"
  /\ entry = "compare_dfs"
  /\ BothGiven
  /\ given1 # given2
  /\ SameLabels(given1, given2)
  /\ \E p \in DOMAIN given1.cells : given1.cells[p] = NaN /\ given2.cells[p] # NaN
  /\ \A p \in DOMAIN given2.cells : given2.cells[p] # NaN
  /\ CountKind("Value") >= 1

\* the two frames once the index normalization step has run on them
NormalizationDone ==
  \/ entry = "compare_dfs" /\ pc \in {"assert", "shape", "index", "columns",
                                      "dtypes", "cells", "done"}
  \/ entry = "cmp_dfs" /\ pc \in {"cmp_assert", "done"}
Normalized1 == IF entry = "compare_dfs" THEN df1_copy ELSE df1
Normalized2 == IF entry = "compare_dfs" THEN df2_copy ELSE df2

\* C12: once the normalization step has run, running it again on its result,
\* with the same flag, changes nothing; a frame whose index is not a
\* PeriodIndex, and any frame when the flag is off, comes out of the step as
\* it went in.
C12_NormalizationIdempotent ==
  NormalizationDone =>
    /\ Normalize(Normalized1, to_timestamp) = Normalized1
    /\ Normalize(Normalized2, to_timestamp) = Normalized2
    /\ (given1.kind # "period" \/ ~to_timestamp) => Normalized1 = given1
    /\ (given2.kind # "period" \/ ~to_timestamp) => Normalized2 = given2

\* the step has turned the first frame's PeriodIndex into the start instants
\* and left the second frame's DatetimeIndex alone
C12_Witness ==
  /\ NormalizationDone
  /\ to_timestamp
  /\ given1.kind = "period"
  /\ given2.kind = "datetime"
  /\ Normalized1.kind = "datetime"
  /\ Normalized1.keys # given1.keys
  /\ Normalized2 = given2

\* ---------------------------------------------------------- load_raw_data
FileNames == <<"x.csv", "y.csv", "z.csv">>
Names == {FileNames[i] : i \in 1..MaxFiles}
URLs == {"u1", "u2"}
OutDirs == {"", "data"}
Cwd == <<"cwd">>
\* os.path.abspath of a relative directory: the working directory for ""
Abspath(d) == IF d = "" THEN Cwd ELSE Append(Cwd, d)
\* os.path.join of a directory and a plain file name
Join(dir, name) == Append(dir, name)
\* the lists of (name, URL) items of a dict: no name twice, possibly empty
ItemSeqs ==
  {<<>>} \cup {s \in UNION {[1..k -> Names \X URLs] : k \in 1..MaxFiles} :
                 \A i, j \in 1..Len(s) : s[i][1] = s[j][1] => i = j}
NotADict == [kind |-> "list"]
FilePathArgs == {None, NotADict} \cup {[kind |-> "dict", items |-> it] : it \in ItemSeqs}
IsValidMap(fp) == fp.kind = "dict" /\ Len(fp.items) > 0
\* dict item assignment
Put(m, k, v) == [x \in DOMAIN m \cup {k} |-> IF x = k THEN v ELSE m[x]]
\* os.path.exists: a file or a directory is there
Exists(path) == path \in files \cup dirs
\* a download started for every entry, whatever exists
NeedsDownloadAlways(path, existing) == TRUE
\* line 81
NeedsDownload(path, existing) == path \notin existing
\* the entry and the target path the loop is at
CurrentItem == file_path.items[idx]
new_file_name == Join(Abspath(out_dir), CurrentItem[1])

\* the comparison functions are not called
CmpIdle ==
  /\ entry = "compare_dfs"
  /\ to_timestamp = FALSE
  /\ df1 = None
  /\ df2 = None
  /\ given1 = None
  /\ given2 = None
  /\ df1_copy = Unset
  /\ df2_copy = Unset
  /\ pc = "off"
  /\ out = <<>>
  /\ exc = "none"
  /\ stages = <<>>

\* a first call of load_raw_data, on a file system in which any of the
\* target files may already exist
LoadInit ==
  /\ CmpIdle
  /\ file_path \in FilePathArgs
  /\ out_dir \in OutDirs
  /\ dirs \in {{Cwd}, {Cwd, Abspath(out_dir)}}
  /\ files \in SUBSET {Join(Abspath(out_dir), n) : n \in Names}
  /\ files # {} => Abspath(out_dir) \in dirs
  /\ files0 = files
  /\ dirs0 = dirs
  /\ call = 1
  /\ lpc = "validate"
  /\ idx = 1
  /\ updated_file_path = <<>>
  /\ results = <<>>
  /\ checks = <<>>

\* lines 63-68
LoadValidate ==
  /\ lpc = "validate"
  /\ IF IsValidMap(file_path)
     THEN /\ lpc' = "makedirs"
          /\ results' = results
     ELSE /\ lpc' = "ended"
          /\ results' = Append(results, [status |-> "raised", exc |-> "ValueError",
                                         value |-> <<>>])
  /\ UNCHANGED <<file_path, out_dir, files, dirs, files0, dirs0, call, idx,
                 updated_file_path, checks>>
  /\ UNCHANGED cmpVars

\* lines 71-76
LoadMakeDirs ==
  /\ lpc = "makedirs"
  /\ dirs' = IF Len(Abspath(out_dir)) > 0 THEN dirs \cup {Abspath(out_dir)} ELSE dirs
  /\ updated_file_path' = <<>>
  /\ idx' = 1
  /\ lpc' = "loop"
  /\ UNCHANGED <<file_path, out_dir, files, files0, dirs0, call, results, checks>>
  /\ UNCHANGED cmpVars

\* lines 77-86: one turn of the loop, up to the call of download_data
LoadEntry ==
  /\ lpc = "loop"
  /\ idx <= Len(file_path.items)
  /\ updated_file_path' = Put(updated_file_path, new_file_name, CurrentItem[2])
  /\ checks' = Append(checks, [call |-> call, path |-> new_file_name,
                               existed |-> Exists(new_file_name),
                               downloaded |-> NeedsDownload(new_file_name, files \cup dirs)])
  /\ IF NeedsDownload(new_file_name, files \cup dirs)
     THEN lpc' = "download" /\ idx' = idx
     ELSE lpc' = "loop" /\ idx' = idx + 1
  /\ UNCHANGED <<file_path, out_dir, files, dirs, files0, dirs0, call, results>>
  /\ UNCHANGED cmpVars

\* download_data, lines 12-44: requests.get may raise before the file is
\* opened (line 21), the stream may raise after open() has created it (lines
\* 37-38), or the file is written
DownloadData ==
  /\ lpc = "download"
  /\ \E outcome \in {"written", "get_raises", "stream_raises"} :
       /\ files' = IF outcome = "get_raises" THEN files ELSE files \cup {new_file_name}
       /\ IF outcome = "written"
          THEN /\ lpc' = "loop"
               /\ idx' = idx + 1
               /\ results' = results
          ELSE /\ lpc' = "ended"
               /\ idx' = idx
               /\ results' = Append(results, [status |-> "raised",
                                              exc |-> "RequestException",
                                              value |-> <<>>])
  /\ UNCHANGED <<file_path, out_dir, dirs, files0, dirs0, call, updated_file_path,
                 checks>>
  /\ UNCHANGED cmpVars

\* line 88
LoadReturn ==
  /\ lpc = "loop"
  /\ idx > Len(file_path.items)
  /\ results' = Append(results, [status |-> "returned", exc |-> "none",
                                 value |-> updated_file_path])
  /\ lpc' = "ended"
  /\ UNCHANGED <<file_path, out_dir, files, dirs, files0, dirs0, call, idx,
                 updated_file_path, checks>>
  /\ UNCHANGED cmpVars

\* the caller calls load_raw_data again with the same arguments
LoadCallAgain ==
  /\ lpc = "ended"
  /\ call < MaxCalls
  /\ call' = call + 1
  /\ lpc' = "validate"
  /\ UNCHANGED <<file_path, out_dir, files, dirs, files0, dirs0, idx,
                 updated_file_path, results, checks>>
  /\ UNCHANGED cmpVars

LoadNext ==
  \/ LoadValidate
  \/ LoadMakeDirs
  \/ LoadEntry
  \/ DownloadData
  \/ LoadReturn
  \/ LoadCallAgain

SpecLoad == LoadInit /\ [][LoadNext]_vars

\* the position in file_path.items of the entry each target path comes from
ItemIndexAt ==
  LET it == file_path.items
  IN [p \in {Join(Abspath(out_dir), it[i][1]) : i \in 1..Len(it)} |->
        (CHOOSE i \in 1..Len(it) : Join(Abspath(out_dir), it[i][1]) = p) ]
\* the dict from each target path to the URL given for its name
ExpectedUrls == [p \in DOMAIN ItemIndexAt |-> file_path.items[ItemIndexAt[p]][2]]

\* C13: load_raw_data starts a download for an entry exactly when nothing
\* exists at the target path; once a call has returned, a later call with the
\* same arguments starts no download; every call that returns, returns the
\* dict from target path to the given URL; and a None, non-dict or empty
\* file_path ends every call with ValueError, with no directory created and
\* no entry examined.
C13_LoadIdempotent ==
  /\ \A k \in 1..Len(checks) : checks[k].downloaded <=> ~checks[k].existed
  /\ \A k \in 1..Len(checks) :
       (\E j \in 1..Len(results) :
          j < checks[k].call /\ results[j].status = "returned")
         => ~checks[k].downloaded
  /\ \A j \in 1..Len(results) :
       results[j].status = "returned" => results[j].value = ExpectedUrls
  /\ ~IsValidMap(file_path) =>
       /\ dirs = dirs0
       /\ files = files0
       /\ checks = <<>>
       /\ \A j \in 1..Len(results) :
            results[j].status = "raised" /\ results[j].exc = "ValueError"

\* two calls have returned; the first found one file there and downloaded
\* the other, the second examined both and downloaded none
C13_Witness ==
  /\ Len(results) = 2
  /\ results[1].status = "returned"
  /\ results[2].status = "returned"
  /\ \E k \in 1..Len(checks) : checks[k].call = 1 /\ checks[k].downloaded
  /\ \E k \in 1..Len(checks) : checks[k].call = 1 /\ ~checks[k].downloaded
  /\ Cardinality({k \in 1..Len(checks) : checks[k].call = 2}) = 2
  /\ out_dir = "data"
  /\ Abspath(out_dir) \notin dirs0 \/ files0 # {}

====
